---------------------------- MODULE Spec2Model ----------------------------
(***************************************************************************)
(* Error-context classification of gitbutler-core (error.rs).              *)
(*                                                                         *)
(* An anyhow::Error is modelled as the sequence of its layers, outermost   *)
(* (most recently attached) first and the root cause last.  Every          *)
(* `.context(x)` call pushes one layer in front.  A layer is a record      *)
(*   [kind, code, message, text]                                           *)
(* kind = "Context" : a Context{code, message} was attached                *)
(* kind = "Code"    : a bare Code was attached                             *)
(* kind = "Other"   : some other annotation (e.g. a &str), shown as text   *)
(* kind = "Root"    : the error first raised, shown as text                *)
(* Option<T> is a sequence of length 0 (None) or 1 (Some).  A message is   *)
(* Option<Cow<str>>; only the string content of the Cow is observable      *)
(* through as_deref(), so it is kept as the string.                        *)
(***************************************************************************)
EXTENDS Naturals, Sequences, FiniteSets

\* Largest number of annotations attached to one error.
MaxDepth == 3

None == <<>>
Some(x) == <<x>>

\* One layer of an error chain: the attached value's type and its content.
Layer(kind, code, message, text) ==
    [kind |-> kind, code |-> code, message |-> message, text |-> text]

\* enum Code
Code == {"Unknown", "Validation", "ProjectGitAuth"}

\* #[default] Unknown
Code_default == "Unknown"

\* Messages callers hand to Context::new / Context::new_static.
Msgs == {"", "user msg"}

\* Descriptions of the errors first raised, and of unrelated annotations.
RootTexts == {"disk full", "not found"}
OtherTexts == {"while saving"}

\* impl Display for Code: two variants sharing one identifier.
Code_fmt_shared(self) ==
    CASE self = "Unknown" -> "errors.unknown"
      [] self = "Validation" -> "errors.unknown"
      [] self = "ProjectGitAuth" -> "errors.projects.git.auth"

\* impl Display for Code
Code_fmt(self) ==
    CASE self = "Unknown" -> "errors.unknown"
      [] self = "Validation" -> "errors.validation"
      [] self = "ProjectGitAuth" -> "errors.projects.git.auth"

\* Option::unwrap_or
unwrap_or(opt, dflt) == IF opt = None THEN dflt ELSE opt[1]

\* impl Display for Context: an empty message treated like an absent one.
Context_fmt_empty_is_absent(self) ==
    IF self.message = None \/ self.message = Some("")
    THEN "Something went wrong"
    ELSE self.message[1]

\* impl Display for Context
Context_fmt(self) == unwrap_or(self.message, "Something went wrong")

\* impl From<Code> for Context: the code is dropped for the default one.
Context_from_default(code) == [code |-> Code_default, message |-> None]

\* impl From<Code> for Context
Context_from(code) == [code |-> code, message |-> None]

\* Context::new
Context_new(message) == [code |-> "Unknown", message |-> Some(message)]

\* Context::new_static
Context_new_static(code, message) == [code |-> code, message |-> Some(message)]

\* Context::with_code: builds the result from the code alone.
with_code_drops_message(self, code) == [code |-> code, message |-> None]

\* Context::with_code
with_code(self, code) == [self EXCEPT !.code = code]

\* Every Context value the constructors produce.
Contexts ==
    {Context_new(m) : m \in Msgs}
      \cup {Context_new_static(c, m) : c \in Code, m \in Msgs}
      \cup {Context_from(c) : c \in Code}

\* Layers of an error chain.
RootLayer(t) == Layer("Root", Code_default, None, t)
OtherLayer(t) == Layer("Other", Code_default, None, t)
CodeLayer(c) == Layer("Code", c, None, "")
ContextLayer(ctx) == Layer("Context", ctx.code, ctx.message, "")

\* The Context stored in a "Context" layer (ctx.clone()).
clone(layer) == [code |-> layer.code, message |-> layer.message]

\* anyhow::Error::context: wrap the error in one more layer.
context(e, layer) == <<layer>> \o e

\* anyhow::Error::downcast_ref, looking at the outermost layer only.
downcast_ref_outermost(e, kind) ==
    IF Head(e).kind = kind THEN Some(Head(e)) ELSE None

\* anyhow::Error::downcast_ref::<T>(): the outermost layer of type T.
RECURSIVE downcast_ref(_, _)
downcast_ref(e, kind) ==
    IF e = <<>> THEN None
    ELSE IF Head(e).kind = kind THEN Some(Head(e))
    ELSE downcast_ref(Tail(e), kind)

\* anyhow::Error::root_cause, stopping at the outermost layer.
root_cause_outermost(e) == e[1]

\* anyhow::Error::root_cause(): the innermost error of the chain.
root_cause(e) == e[Len(e)]

\* Display of one layer of the chain.
to_string(layer) ==
    CASE layer.kind = "Context" -> Context_fmt(clone(layer))
      [] layer.kind = "Code" -> Code_fmt(layer.code)
      [] OTHER -> layer.text

\* The layers that carry a classification, outermost first.
IsClassified(layer) == layer.kind \in {"Context", "Code"}
Classified(e) == SelectSeq(e, IsClassified)

\* custom_context as one walk in which the outermost Context or Code wins.
custom_context_single_pass(e) ==
    LET cl == Classified(e)
    IN  IF cl = <<>> THEN None
        ELSE IF cl[1].kind = "Context" THEN Some(clone(cl[1]))
        ELSE Some(Context_from(cl[1].code))

\* custom_context looking for a bare Code before a Context.
custom_context_code_first(e) ==
    LET code == downcast_ref(e, "Code")
    IN  IF code # None THEN Some(Context_from(code[1].code))
        ELSE LET ctx == downcast_ref(e, "Context")
             IN  IF ctx = None THEN None ELSE Some(clone(ctx[1]))

\* AnyhowContextExt::custom_context
custom_context(e) ==
    LET ctx == downcast_ref(e, "Context")
    IN  IF ctx # None THEN Some(clone(ctx[1]))
        ELSE LET code == downcast_ref(e, "Code")
             IN  IF code = None THEN None ELSE Some(Context_from(code[1].code))

\* custom_context_or_root_cause forcing the code to Unknown.
custom_context_or_root_cause_unknown(e) ==
    [code |-> "Unknown",
     message |-> IF custom_context(e) # None
                 THEN custom_context(e)[1].message
                 ELSE Some(to_string(root_cause(e)))]

\* AnyhowContextExt::custom_context_or_root_cause
custom_context_or_root_cause(e) ==
    IF custom_context(e) # None
    THEN custom_context(e)[1]
    ELSE [code |-> "Unknown", message |-> Some(to_string(root_cause(e)))]

VARIABLES
    err,        \* the anyhow::Error being propagated
    found,      \* what custom_context() returned for err
    resolved,   \* what custom_context_or_root_cause() returned for err
    made,       \* what with_code() returned
    shown,      \* what the last Display call wrote
    last        \* the last operation and its Code argument

vars == <<err, found, resolved, made, shown, last>>

Op(name, code) == [code |-> code, op |-> name]

\* The Context the caller got from the last retrieval.
Retrieved == IF resolved # None THEN resolved ELSE found

\* anyhow!("..."): an error without context.
Init ==
    /\ err \in {<<RootLayer(t)>> : t \in RootTexts}
    /\ found = None
    /\ resolved = None
    /\ made = None
    /\ shown = None
    /\ last = Op("anyhow", Code_default)

\* Attaching a layer invalidates what was read from the error before.
Attach(layer) ==
    /\ Len(err) <= MaxDepth
    /\ err' = context(err, layer)
    /\ found' = None
    /\ resolved' = None
    /\ made' = None
    /\ shown' = None
    /\ last' = Op("context", Code_default)

\* err.context(Context{..})
AttachContext == \E ctx \in Contexts : Attach(ContextLayer(ctx))

\* err.context(Code::X)
AttachCode == \E c \in Code : Attach(CodeLayer(c))

\* err.context("...")
AttachOther == \E t \in OtherTexts : Attach(OtherLayer(t))

\* err.custom_context()
CustomContext ==
    /\ found' = custom_context(err)
    /\ resolved' = None
    /\ made' = None
    /\ shown' = None
    /\ last' = Op("custom_context", Code_default)
    /\ UNCHANGED err

\* err.custom_context_or_root_cause(), with the inner custom_context() result
CustomContextOrRootCause ==
    /\ found' = custom_context(err)
    /\ resolved' = Some(custom_context_or_root_cause(err))
    /\ made' = None
    /\ shown' = None
    /\ last' = Op("custom_context_or_root_cause", Code_default)
    /\ UNCHANGED err

\* ctx.clone().with_code(X) on the retrieved Context
WithCode ==
    /\ Retrieved # None
    /\ \E X \in Code :
        /\ made' = Some(with_code(Retrieved[1], X))
        /\ last' = Op("with_code", X)
    /\ shown' = None
    /\ UNCHANGED <<err, found, resolved>>

\* ctx.to_string() on the retrieved Context
DisplayContext ==
    /\ Retrieved # None
    /\ shown' = Some(Context_fmt(Retrieved[1]))
    /\ made' = None
    /\ last' = Op("Context::fmt", Code_default)
    /\ UNCHANGED <<err, found, resolved>>

\* ctx.code.to_string() on the retrieved Context
DisplayCode ==
    /\ Retrieved # None
    /\ shown' = Some(Code_fmt(Retrieved[1].code))
    /\ made' = None
    /\ last' = Op("Code::fmt", Retrieved[1].code)
    /\ UNCHANGED <<err, found, resolved>>

Next ==
    \/ AttachContext
    \/ AttachCode
    \/ AttachOther
    \/ CustomContext
    \/ CustomContextOrRootCause
    \/ WithCode
    \/ DisplayContext
    \/ DisplayCode

Spec == Init /\ [][Next]_vars

\* found holds the result of custom_context() on the current err.
Fresh == last.op # "anyhow" /\ last.op # "context"

TypeOK ==
    /\ Len(err) \in 1..(MaxDepth + 1)
    /\ err[Len(err)].kind = "Root"
    /\ \A i \in 1..(Len(err) - 1) : err[i].kind \in {"Context", "Code", "Other"}
    /\ Len(found) <= 1 /\ Len(resolved) <= 1 /\ Len(made) <= 1 /\ Len(shown) <= 1

(***************************************************************************)
(* Claims                                                                  *)
(***************************************************************************)

\* The Context and Code layers of err, outermost first, by kind.
ContextLayers == SelectSeq(err, LAMBDA l : l.kind = "Context")
CodeLayers == SelectSeq(err, LAMBDA l : l.kind = "Code")
NoMessage(c) == [code |-> c, message |-> None]
Carried(layer) == [code |-> layer.code, message |-> layer.message]

\* C1 (as stated): when two annotations A and then B (B outer), each a
\* Context or a bare Code, are attached, custom_context() returns the value
\* derived from B in all four combinations.
C1_LaterAlwaysWins ==
    (Fresh /\ Len(Classified(err)) = 2)
        => found = Some(Carried(Classified(err)[1]))

\* C1 (amended): with two annotations A and then B (B outer), custom_context()
\* returns the value derived from B, except when A is a Context and B is a
\* bare Code, where it returns A.
C1_LaterWinsUnlessCodeOverContext ==
    (Fresh /\ Len(Classified(err)) = 2)
        => LET B == Classified(err)[1]
               A == Classified(err)[2]
           IN  IF A.kind = "Context" /\ B.kind = "Code"
               THEN found = Some(Carried(A))
               ELSE found = Some(Carried(B))

C1_Witness ==
    /\ Fresh
    /\ Len(Classified(err)) = 2
    /\ Classified(err)[1].kind = "Code"
    /\ Classified(err)[2].kind = "Context"
    /\ Classified(err)[1].code # Classified(err)[2].code
    /\ found = Some(Carried(Classified(err)[2]))

\* C2: on a chain of any depth without Context and bare Code annotations,
\* custom_context() returns none and custom_context_or_root_cause() returns
\* code Unknown with the description of the innermost (root) cause.
C2_UnclassifiedFallsBackToRootCause ==
    (Fresh /\ Classified(err) = <<>>)
        => /\ found = None
           /\ last.op = "custom_context_or_root_cause"
                => resolved = Some([code |-> "Unknown",
                                    message |-> Some(err[Len(err)].text)])

C2_Witness ==
    /\ last.op = "custom_context_or_root_cause"
    /\ Len(err) = MaxDepth + 1
    /\ Classified(err) = <<>>
    /\ err[1].text # err[Len(err)].text
    /\ resolved = Some([code |-> "Unknown", message |-> Some("disk full")])

\* C3: when a bare Code is attached and a Context is attached later, with
\* unrelated annotations anywhere, custom_context() returns that Context with
\* its own code and message.
C3_ContextOverEarlierCode ==
    (/\ Fresh
     /\ Classified(err) # <<>>
     /\ Classified(err)[1].kind = "Context"
     /\ \E i \in 2..Len(Classified(err)) : Classified(err)[i].kind = "Code")
        => found = Some(Carried(Classified(err)[1]))

C3_Witness ==
    /\ Fresh
    /\ Len(err) = 4
    /\ err[1].kind = "Context" /\ err[1].message = Some("user msg")
    /\ err[2].kind = "Other"
    /\ err[3].kind = "Code" /\ err[3].code # err[1].code
    /\ found = Some(Carried(err[1]))

\* C4: custom_context_or_root_cause() always returns a Context; it returns
\* exactly what custom_context() returned when that is some Context, and the
\* Unknown/root-cause Context only when custom_context() returned none.
C4_OrRootCauseAgreesWithCustomContext ==
    (last.op = "custom_context_or_root_cause")
        => /\ Len(resolved) = 1
           /\ resolved[1].code \in Code
           /\ Len(resolved[1].message) <= 1
           /\ found # None => resolved = found
           /\ found = None
                => resolved = Some([code |-> "Unknown",
                                    message |-> Some(err[Len(err)].text)])

C4_Witness ==
    /\ last.op = "custom_context_or_root_cause"
    /\ found # None
    /\ found[1].code # "Unknown"
    /\ found[1].message = None
    /\ resolved = found

\* C5: when the only Context/Code annotations are bare Codes, custom_context()
\* returns the most recently attached Code with no message.
C5_BareCodesGiveOutermostCode ==
    (Fresh /\ Classified(err) # <<>> /\ ContextLayers = <<>>)
        => found = Some(NoMessage(CodeLayers[1].code))

C5_Witness ==
    /\ Fresh
    /\ ContextLayers = <<>>
    /\ Len(CodeLayers) >= 2
    /\ CodeLayers[1].code # "Unknown"
    /\ CodeLayers[1].code # CodeLayers[2].code
    /\ found = Some(NoMessage(CodeLayers[1].code))

\* C6: displaying a Context writes exactly its message when one is present
\* (an empty one included) and "Something went wrong" when it is absent,
\* whatever the code.
C6_ContextDisplay ==
    (last.op = "Context::fmt")
        => shown = Some(IF Retrieved[1].message = None
                        THEN "Something went wrong"
                        ELSE Retrieved[1].message[1])

C6_Witness ==
    /\ last.op = "Context::fmt"
    /\ ContextLayers = <<>>
    /\ CodeLayers # <<>>
    /\ found = Some(NoMessage(CodeLayers[1].code))
    /\ shown = Some("Something went wrong")

C6_WitnessEmptyMessage ==
    /\ last.op = "Context::fmt"
    /\ Retrieved[1].message = Some("")
    /\ shown = Some("")

\* C7: every Code displays as a non-empty identifier that no other Code
\* displays as; the default Code is Unknown, displayed as "errors.unknown".
C7_CodeDisplayInjective ==
    /\ Code_default = "Unknown"
    /\ (last.op = "Code::fmt")
        => /\ shown # None
           /\ shown[1] # ""
           /\ \A d \in Code \ {last.code} : Code_fmt(d) # shown[1]
           /\ last.code = Code_default => shown = Some("errors.unknown")

C7_Witness ==
    /\ last.op = "Code::fmt"
    /\ last.code = "Unknown"
    /\ shown = Some("errors.unknown")

\* C8: c2 = c1.with_code(X) has code X and c1's message, and the call leaves
\* c1's other copies as they were, the one attached to the error included.
C8_WithCodeLeavesReceiver ==
    [][(last'.op = "with_code")
        => /\ Retrieved # None
           /\ made' = Some([code |-> last'.code,
                            message |-> Retrieved[1].message])
           /\ found' = found
           /\ resolved' = resolved
           /\ err' = err]_vars

C8_Witness ==
    /\ last.op = "with_code"
    /\ found # None
    /\ found[1].message = Some("user msg")
    /\ made = Some([code |-> last.code, message |-> Some("user msg")])
    /\ made[1].code # found[1].code
    /\ ContextLayers # <<>>
    /\ Carried(ContextLayers[1]) = found[1]

\* C9: attaching an annotation that is neither a Context nor a bare Code
\* changes neither the result of custom_context() nor the root cause.
C9_UnrelatedWrappingKeepsClassification ==
    [][(Len(err') = Len(err) + 1 /\ Head(err').kind = "Other")
        => /\ custom_context(err') = custom_context(err)
           /\ to_string(root_cause(err')) = to_string(root_cause(err))
           /\ custom_context_or_root_cause(err') = custom_context_or_root_cause(err)]_vars

C9_Witness ==
    /\ Fresh
    /\ Len(err) = MaxDepth + 1
    /\ err[1].kind = "Other"
    /\ err[2].kind = "Other"
    /\ found # None
    /\ found = Some(Carried(err[3]))

\* C10: whenever the chain holds a Context at any depth, custom_context()
\* returns the outermost Context, also under bare Codes attached later; a
\* bare Code decides the result only when the chain holds no Context.
C10_ContextSearchedBeforeCode ==
    Fresh
        => /\ ContextLayers # <<>> => found = Some(Carried(ContextLayers[1]))
           /\ ContextLayers = <<>>
                => found = IF CodeLayers = <<>> THEN None
                           ELSE Some(NoMessage(CodeLayers[1].code))

C10_Witness ==
    /\ Fresh
    /\ Len(err) = 4
    /\ err[1].kind = "Code" /\ err[2].kind = "Code"
    /\ err[3].kind = "Context"
    /\ err[3].code # err[1].code /\ err[3].code # err[2].code
    /\ found = Some(Carried(err[3]))
=============================================================================
